---- MODULE Spec2Model ----
(***************************************************************************)
(* State-machine model of the grammar checker's front end (result page,   *)
(* input page, file upload) and of the analysis engine's orchestration.   *)
(* Strings are sequences of one-character strings.                        *)
(***************************************************************************)
EXTENDS Integers, Sequences, FiniteSets, TLC

VARIABLES
    \* ---- result page (src/app/result/page.tsx, HighlightedText.tsx)
    session,        \* sessionStorage item 'grammarAnalysisResult'
    route,          \* the page the router shows
    effectRan,      \* whether ResultPage's mount effect has run
    result,         \* useState<AnalysisResult | null>
    displayText,    \* useState('')
    displayErrors,  \* useState<GrammarError[]>([])
    activeError,    \* HighlightedText: useState<GrammarError | null>
    currentSentenceIndex, \* useState(0)
    lastOp,         \* history: the last handler that ran and the state it saw
    \* ---- input page (src/app/page.tsx, TextInput, FileUpload)
    inputMode,      \* useState<'text' | 'file'>('text')
    ngramMode,      \* useState<'bigram' | 'trigram'>('trigram')
    text,           \* useState(''): its length and whether it is all whitespace
    selectedFile,   \* useState<File | null>(null)
    isLoading,      \* useState(false)
    error,          \* useState<string | null>(null)
    uploadError,    \* FileUpload: useState<string | null>(null)
    request,        \* the analysis request in flight
    lastInput,      \* history: the last input handler and what it was given
    \* ---- analysis engine (spec.md sections 4.1 to 4.9)
    model,          \* the LanguageModel: the count of every vocabulary word
    docText,        \* the text analyze was called with
    phase,          \* where the analyze call stands
    sentences,      \* the sentence spans the segmenter found
    analyses,       \* the SentenceAnalysis records produced so far
    engineResult,   \* the AnalysisResult, once aggregated
    \* ---- backend process (spec.md sections 5 to 7)
    startup,        \* corpus loading: "loading", "ready" or "failed"
    loaded,         \* the number of corpora counted so far
    partial,        \* the count tables under construction
    calls,          \* the analyze calls: text, position, result
    work,           \* the sentences and analyses a call is working on
    health          \* history: the last answer of the health signal

resultVars == <<effectRan, result, displayText, displayErrors, activeError,
               currentSentenceIndex, lastOp>>

inputVars == <<inputMode, ngramMode, text, selectedFile, isLoading, error,
               uploadError, request, lastInput>>

engineVars == <<model, docText, phase, sentences, analyses, engineResult>>

serverVars == <<startup, loaded, partial, calls, work, health>>

vars == <<session, route, resultVars, inputVars, engineVars, serverVars>>

-----------------------------------------------------------------------------
\* Bounds and input alphabets of the result page

Alphabet == {"a", "b"}

MaxTextLen == 3

MaxErrors == 2

MaxSugLen == 1

Min(a, b) == IF a < b THEN a ELSE b

Max(a, b) == IF a > b THEN a ELSE b

Strings(n) == UNION {[1..k -> Alphabet] : k \in 0..n}

-----------------------------------------------------------------------------
\* String.prototype.slice as the page uses it: negative indices count from the
\* end, every index is clamped to [0, length].

ClampIndex(i, len) == IF i < 0 THEN Max(len + i, 0) ELSE Min(i, len)

Slice(s, a, b) ==
    LET from == ClampIndex(a, Len(s))
        to   == ClampIndex(b, Len(s))
    IN  IF from < to THEN SubSeq(s, from + 1, to) ELSE <<>>

SliceFrom(s, a) == Slice(s, a, Len(s))

-----------------------------------------------------------------------------
\* GrammarError objects. The field id stands for the object's identity (what
\* JavaScript's !== compares); id 0 is null.

NoError == [id |-> 0, type |-> "none", start |-> 0, end |-> 0, original |-> <<>>,
            suggestion |-> <<>>]

Ids(errors) == {errors[i].id : i \in 1..Len(errors)}

\* The errors an engine may report on text: a span inside the text, the
\* original equal to the text of the span, and a suggestion that differs.
ErrorsOn(str) ==
    {[start |-> s, end |-> e, original |-> Slice(str, s, e), suggestion |-> g] :
        <<s, e, g>> \in {t \in (0..Len(str)) \X (0..Len(str)) \X Strings(MaxSugLen) :
                            t[1] <= t[2] /\ t[3] # Slice(str, t[1], t[2])}}

\* Error lists are in ascending order of start (the engine merges by start).
ErrorListsOn(str) ==
    UNION {{l \in [1..n -> ErrorsOn(str)] :
                \A i \in 1..(n - 1) : l[i].start <= l[i + 1].start} : n \in 0..MaxErrors}

\* JSON.parse builds one fresh object per error. The field type stands for the
\* fields no handler reads (type, explanation, sentenceIndex): an insertion is
\* a punctuation error, a replacement a spelling error.
Parsed(l) ==
    [i \in 1..Len(l) |->
        [id |-> i,
         type |-> IF l[i].start = l[i].end THEN "punctuation" ELSE "spelling",
         start |-> l[i].start, end |-> l[i].end,
         original |-> l[i].original, suggestion |-> l[i].suggestion]]

\* The engine's corrected text: every suggestion applied once, left to right,
\* later offsets adjusted by the length delta of each substitution.
RECURSIVE ApplyAllFrom(_, _, _)
ApplyAllFrom(str, errors, shift) ==
    IF errors = <<>> THEN str
    ELSE LET e == Head(errors)
             t == Slice(str, 0, e.start + shift) \o e.suggestion
                    \o SliceFrom(str, e.end + shift)
         IN  ApplyAllFrom(t, Tail(errors),
                          shift + Len(e.suggestion) - (e.end - e.start))

CorrectedText(str, errors) == ApplyAllFrom(str, errors, 0)

NullResult == [isNull |-> TRUE, originalText |-> <<>>, correctedText |-> <<>>,
               errors |-> <<>>, sentences |-> <<>>, confidenceScore |-> 0]

\* result.sentences: n SentenceAnalysis records, of which the page reads the
\* number only
SentenceList(n) == [i \in 1..n |-> [index |-> i - 1]]

\* The stored results of the page's text and error handling: a text without
\* sentence terminators is one sentence, the empty text none.
AnalysisResults ==
    UNION {{[isNull |-> FALSE, originalText |-> t,
             correctedText |-> CorrectedText(t, l), errors |-> Parsed(l),
             sentences |-> SentenceList(IF t = <<>> THEN 0 ELSE 1),
             confidenceScore |-> 100] :
                l \in ErrorListsOn(t)} : t \in Strings(MaxTextLen)}

\* What sessionStorage may hold under the key: nothing, text JSON.parse
\* rejects, or a stored AnalysisResult.
SessionItems ==
    {[kind |-> "none", value |-> NullResult], [kind |-> "invalid", value |-> NullResult]}
    \cup {[kind |-> "ok", value |-> r] : r \in AnalysisResults}

\* checked: whether Back / Check Another Text has been used so far
NoOp == [name |-> "none", error |-> NoError, text |-> <<>>, errors |-> <<>>,
         checked |-> FALSE]

Op(name, err) ==
    [name |-> name, error |-> err, text |-> displayText, errors |-> displayErrors,
     checked |-> lastOp.checked]

-----------------------------------------------------------------------------
\* Input page state (defined here for the initial states of both pages)

MAX_TEXT_LENGTH == 10000

MAX_FILE_SIZE_MB == 5

NoFile == [name |-> <<>>, size |-> -1]

EmptyText == [len |-> 0, blank |-> TRUE]

NoRequest == [kind |-> "none", ngram |-> "none", text |-> EmptyText, file |-> NoFile]

NoInput == [name |-> "none", value |-> EmptyText, file |-> NoFile,
            text |-> EmptyText, selected |-> NoFile]

\* the state Home and its children are constructed with
InputPageUnmounted ==
    /\ inputMode = "text"
    /\ ngramMode = "trigram"
    /\ text = EmptyText
    /\ selectedFile = NoFile
    /\ isLoading = FALSE
    /\ error = "null"
    /\ uploadError = "null"
    /\ request = NoRequest
    /\ lastInput = NoInput

NoEngineResult ==
    [originalText |-> <<>>, correctedText |-> <<>>, errors |-> <<>>,
     sentences |-> <<>>, confidenceScore |-> 0]

\* no analyze call in progress, the model not under study
EngineIdle ==
    /\ model = <<>>
    /\ docText = <<>>
    /\ phase = "idle"
    /\ sentences = <<>>
    /\ analyses = <<>>
    /\ engineResult = NoEngineResult

NoHealth == [answered |-> FALSE, modelLoaded |-> FALSE, vocabularySize |-> 0,
             totalWords |-> 0]

\* no backend process under study
ServerOff ==
    /\ startup = "off"
    /\ loaded = 0
    /\ partial = <<>>
    /\ calls = <<>>
    /\ work = <<>>
    /\ health = NoHealth

-----------------------------------------------------------------------------
\* Result page

InitResult ==
    /\ session \in SessionItems
    /\ route = "/result"
    /\ effectRan = FALSE
    /\ result = NullResult
    /\ displayText = <<>>
    /\ displayErrors = <<>>
    /\ activeError = NoError
    /\ currentSentenceIndex = 0
    /\ lastOp = NoOp
    /\ InputPageUnmounted
    /\ EngineIdle
    /\ ServerOff

\* a mount effect that stays on the page when there is nothing to show
LoadResultMutant ==
    /\ route = "/result"
    /\ ~effectRan
    /\ effectRan' = TRUE
    /\ IF session.kind = "ok"
       THEN /\ result' = session.value
            /\ displayText' = session.value.originalText
            /\ displayErrors' = session.value.errors
       ELSE UNCHANGED <<result, displayText, displayErrors>>
    /\ lastOp' = Op("load", NoError)
    /\ UNCHANGED <<session, route, activeError, currentSentenceIndex>>

\* useEffect on mount
LoadResult ==
    /\ route = "/result"
    /\ ~effectRan
    /\ effectRan' = TRUE
    /\ IF session.kind = "ok"
       THEN /\ result' = session.value
            /\ displayText' = session.value.originalText
            /\ displayErrors' = session.value.errors
            /\ route' = route
       ELSE /\ route' = "/"
            /\ UNCHANGED <<result, displayText, displayErrors>>
    /\ lastOp' = Op("load", NoError)
    /\ UNCHANGED <<session, activeError, currentSentenceIndex>>

\* The k-th smallest identity not in used, counting from c.
RECURSIVE NthFree(_, _, _)
NthFree(used, k, c) ==
    IF c \in used THEN NthFree(used, k, c + 1)
    ELSE IF k = 1 THEN c ELSE NthFree(used, k - 1, c + 1)

\* .filter((e) => e !== error)
WithoutError(errors, err) == SelectSeq(errors, LAMBDA e : e.id # err.id)

\* the condition under which .map builds a shifted copy of e
ShiftsRight(e, err) == e.start > err.start

\* a map that moves the positions inside the objects it was given
ShiftedErrorsMutant(errors, err, offset, used) ==
    [j \in 1..Len(errors) |->
        IF ShiftsRight(errors[j], err)
        THEN [errors[j] EXCEPT !.start = @ + offset, !.end = @ + offset]
        ELSE errors[j]]

\* .map((e) => ...) over the filtered list; a shifted error is a new object
ShiftedErrors(errors, err, offset, used) ==
    [j \in 1..Len(errors) |->
        IF ShiftsRight(errors[j], err)
        THEN [id |-> NthFree(used,
                        Cardinality({i \in 1..j : ShiftsRight(errors[i], err)}), 1),
              type |-> errors[j].type,
              start |-> errors[j].start + offset,
              end |-> errors[j].end + offset,
              original |-> errors[j].original,
              suggestion |-> errors[j].suggestion]
        ELSE errors[j]]

FixedText(str, err) ==
    Slice(str, 0, err.start) \o err.suggestion \o SliceFrom(str, err.end)

\* handleApplyFix(error) of the result page
HandleApplyFix(err) ==
    /\ ~result.isNull
    /\ displayText' = FixedText(displayText, err)
    /\ displayErrors' =
          ShiftedErrors(WithoutError(displayErrors, err), err,
                        Len(err.suggestion) - Len(err.original),
                        Ids(result.errors) \cup Ids(displayErrors) \cup {err.id})
    /\ lastOp' = Op("fix", err)
    /\ UNCHANGED <<session, route, effectRan, result, currentSentenceIndex>>

\* HighlightedText.handleErrorClick on the segment of displayErrors[i]
HandleErrorClick(i) ==
    /\ route = "/result"
    /\ ~result.isNull
    /\ activeError' = displayErrors[i]
    /\ lastOp' = Op("click", displayErrors[i])
    /\ UNCHANGED <<session, route, effectRan, result, displayText, displayErrors,
                   currentSentenceIndex>>

\* [...errors].sort((a, b) => a.position.start - b.position.start): one step
\* of the stable sort
RECURSIVE InsertSorted(_, _)
InsertSorted(sorted, e) ==
    IF sorted = <<>> THEN <<e>>
    ELSE IF Head(sorted).start <= e.start
         THEN <<Head(sorted)>> \o InsertSorted(Tail(sorted), e)
         ELSE <<e>> \o sorted

RECURSIVE SortedErrors(_)
SortedErrors(errors) ==
    IF errors = <<>> THEN <<>>
    ELSE InsertSorted(SortedErrors(SubSeq(errors, 1, Len(errors) - 1)),
                      errors[Len(errors)])

TextSegment(str, err, start, end) ==
    [text |-> Slice(str, start, end), error |-> err, start |-> start, end |-> end]

\* the loop over sortedErrors and the push after it
RECURSIVE SegmentsFrom(_, _, _)
SegmentsFrom(str, sorted, currentIndex) ==
    IF sorted = <<>>
    THEN IF currentIndex < Len(str)
         THEN <<TextSegment(str, NoError, currentIndex, Len(str))>>
         ELSE <<>>
    ELSE LET e == Head(sorted)
         IN  (IF e.start > currentIndex
              THEN <<TextSegment(str, NoError, currentIndex, e.start)>>
              ELSE <<>>)
             \o <<TextSegment(str, e, e.start, e.end)>>
             \o SegmentsFrom(str, Tail(sorted), e.end)

\* HighlightedText: segments (useMemo)
Segments(str, errors) ==
    IF Len(errors) = 0 THEN <<[text |-> str, error |-> NoError, start |-> 0,
                               end |-> Len(str)]>>
    ELSE SegmentsFrom(str, SortedErrors(errors), 0)

\* ErrorTooltip calls onClose on Escape, on a mouse press outside it, from
\* its close button and from Ignore
CloseWays == {"escape", "outside", "close", "ignore"}

\* a close that drops the error from the list
HandleCloseTooltipMutant(way) ==
    /\ route = "/result"
    /\ activeError # NoError
    /\ activeError' = NoError
    /\ displayErrors' = WithoutError(displayErrors, activeError)
    /\ lastOp' = Op(way, activeError)
    /\ UNCHANGED <<session, route, effectRan, result, displayText, currentSentenceIndex>>

\* HighlightedText.handleCloseTooltip, the tooltip's onClose
HandleCloseTooltip(way) ==
    /\ route = "/result"
    /\ activeError # NoError
    /\ activeError' = NoError
    /\ lastOp' = Op(way, activeError)
    /\ UNCHANGED <<session, route, effectRan, result, displayText, displayErrors,
                   currentSentenceIndex>>

\* HighlightedText.handleApplyFix: the tooltip's Apply Fix button
TooltipApplyFix ==
    /\ route = "/result"
    /\ activeError # NoError
    /\ HandleApplyFix(activeError)
    /\ activeError' = NoError

ResetTextMutant == result.correctedText

ResetText == result.originalText

AllFixesText == result.correctedText

\* handleApplyAllFixes; the button is rendered while errors are displayed
HandleApplyAllFixes ==
    /\ route = "/result"
    /\ ~result.isNull
    /\ Len(displayErrors) > 0
    /\ displayText' = AllFixesText
    /\ displayErrors' = <<>>
    /\ lastOp' = Op("all", NoError)
    /\ UNCHANGED <<session, route, effectRan, result, activeError, currentSentenceIndex>>

\* handleReset; the button is rendered while the text differs from the original
HandleReset ==
    /\ route = "/result"
    /\ ~result.isNull
    /\ displayText # result.originalText
    /\ displayText' = ResetText
    /\ displayErrors' = result.errors
    /\ lastOp' = Op("reset", NoError)
    /\ UNCHANGED <<session, route, effectRan, result, activeError, currentSentenceIndex>>

\* a handler that navigates and leaves the stored item
HandleNewCheckMutant ==
    /\ route = "/result"
    /\ ~result.isNull
    /\ route' = "/"
    /\ lastOp' = [Op("new", NoError) EXCEPT !.checked = TRUE]
    /\ UNCHANGED <<session, effectRan, result, displayText, displayErrors, activeError,
                   currentSentenceIndex>>

\* handleNewCheck: Back / Check Another Text
HandleNewCheck ==
    /\ route = "/result"
    /\ ~result.isNull
    /\ session' = [kind |-> "none", value |-> NullResult]
    /\ route' = "/"
    /\ lastOp' = [Op("new", NoError) EXCEPT !.checked = TRUE]
    /\ UNCHANGED <<effectRan, result, displayText, displayErrors, activeError,
                   currentSentenceIndex>>

\* The browser opens /result again (address bar, history): ResultPage is
\* mounted anew, with the initial values of its state.
VisitResult ==
    /\ route = "/"
    /\ route' = "/result"
    /\ effectRan' = FALSE
    /\ result' = NullResult
    /\ displayText' = <<>>
    /\ displayErrors' = <<>>
    /\ activeError' = NoError
    /\ currentSentenceIndex' = 0
    /\ lastOp' = [NoOp EXCEPT !.name = "visit", !.checked = lastOp.checked]
    /\ UNCHANGED session

\* what ResultPage returns: the loading screen while result is null
Renders == IF result.isNull THEN "loading" ELSE "analysis"

NextResult ==
    \/ LoadResult /\ UNCHANGED <<inputVars, engineVars, serverVars>>
    \/ \E i \in 1..Len(displayErrors) : HandleErrorClick(i) /\ UNCHANGED <<inputVars, engineVars, serverVars>>
    \/ \E way \in CloseWays :
          HandleCloseTooltip(way) /\ UNCHANGED <<inputVars, engineVars, serverVars>>
    \/ TooltipApplyFix /\ UNCHANGED <<inputVars, engineVars, serverVars>>
    \/ HandleApplyAllFixes /\ UNCHANGED <<inputVars, engineVars, serverVars>>
    \/ HandleReset /\ UNCHANGED <<inputVars, engineVars, serverVars>>
    \/ HandleNewCheck /\ UNCHANGED <<inputVars, engineVars, serverVars>>
    \/ VisitResult /\ UNCHANGED <<inputVars, engineVars, serverVars>>

SpecResult == InitResult /\ [][NextResult]_vars

-----------------------------------------------------------------------------
\* The sentence navigator of the result page (SentenceNavigator.tsx)

MaxNavSentences == 4

\* the confidence scores of the stored results the navigator is run on
NavScores == {0, 100}

\* Stored results of up to MaxNavSentences sentences; they carry no errors,
\* the navigator reads result.sentences only.
NavResults ==
    {[isNull |-> FALSE, originalText |-> t, correctedText |-> t, errors |-> <<>>,
      sentences |-> SentenceList(n), confidenceScore |-> c] :
        t \in Strings(1), n \in 0..MaxNavSentences, c \in NavScores}

NavSessionItems ==
    {[kind |-> "none", value |-> NullResult], [kind |-> "invalid", value |-> NullResult]}
    \cup {[kind |-> "ok", value |-> r] : r \in NavResults}

InitNavigator ==
    /\ session \in NavSessionItems
    /\ route = "/result"
    /\ effectRan = FALSE
    /\ result = NullResult
    /\ displayText = <<>>
    /\ displayErrors = <<>>
    /\ activeError = NoError
    /\ currentSentenceIndex = 0
    /\ lastOp = NoOp
    /\ InputPageUnmounted
    /\ EngineIdle
    /\ ServerOff

\* the page renders the navigator, and the navigator itself, for more than
\* one sentence
NavigatorShown ==
    /\ route = "/result"
    /\ ~result.isNull
    /\ Len(result.sentences) > 1

HasPrev == currentSentenceIndex > 0

\* a Next button that stays enabled on the last sentence
HasNextMutant == currentSentenceIndex < Len(result.sentences)

HasNext == currentSentenceIndex < Len(result.sentences) - 1

\* onChange: setCurrentSentenceIndex
SetCurrentSentenceIndex(name, index) ==
    /\ currentSentenceIndex' = index
    /\ lastOp' = Op(name, NoError)
    /\ UNCHANGED <<session, route, effectRan, result, displayText, displayErrors,
                   activeError>>

\* the Previous button, disabled unless hasPrev
Previous ==
    /\ NavigatorShown
    /\ HasPrev
    /\ SetCurrentSentenceIndex("prev", currentSentenceIndex - 1)

\* the Next button, disabled unless hasNext
NextSentence ==
    /\ NavigatorShown
    /\ HasNext
    /\ SetCurrentSentenceIndex("next", currentSentenceIndex + 1)

\* the dot of sentences[index]
Dot(index) ==
    /\ NavigatorShown
    /\ SetCurrentSentenceIndex("dot", index)

NextNavigator ==
    \/ LoadResult /\ UNCHANGED <<inputVars, engineVars, serverVars>>
    \/ Previous /\ UNCHANGED <<inputVars, engineVars, serverVars>>
    \/ NextSentence /\ UNCHANGED <<inputVars, engineVars, serverVars>>
    \/ \E index \in 0..(Len(result.sentences) - 1) :
          Dot(index) /\ UNCHANGED <<inputVars, engineVars, serverVars>>
    \/ HandleNewCheck /\ UNCHANGED <<inputVars, engineVars, serverVars>>

SpecNavigator == InitNavigator /\ [][NextNavigator]_vars

-----------------------------------------------------------------------------
\* Input page

EditLengths == {0, 1, MAX_TEXT_LENGTH - 1, MAX_TEXT_LENGTH, MAX_TEXT_LENGTH + 1}

\* The values a change event of the textarea may carry.
TextValues ==
    {v \in [len : EditLengths, blank : BOOLEAN] : v.len = 0 => v.blank}

FileNames ==
    { <<"a", ".", "t", "x", "t">>,
      <<"a", ".", "T", "x", "T">>,
      <<"a", ".", "d", "o", "c", "x">>,
      <<"a", ".", "p", "d", "f">>,
      <<"a", ".", "t", "x", "t", ".", "p", "d", "f">>,
      <<"t", "x", "t">>,
      <<"a", "d", "o", "c", "x">> }

FileSizes == {0, MAX_FILE_SIZE_MB * 1024 * 1024, MAX_FILE_SIZE_MB * 1024 * 1024 + 1}

Files == {[name |-> n, size |-> z] : n \in FileNames, z \in FileSizes}

SUPPORTED_FILE_TYPES == { <<".", "t", "x", "t">>, <<".", "d", "o", "c", "x">> }

\* String.prototype.toLowerCase on the letters file names are made of
LowerChar(c) ==
    CASE c = "T" -> "t" [] c = "X" -> "x" [] c = "D" -> "d"
      [] c = "O" -> "o" [] c = "C" -> "c" [] c = "A" -> "a"
      [] c = "B" -> "b" [] OTHER -> c

ToLowerCase(s) == [i \in 1..Len(s) |-> LowerChar(s[i])]

\* name.split('.').pop(): what follows the last '.', the whole name without one
LastSegment(name) ==
    LET dots == {i \in 1..Len(name) : name[i] = "."}
        last == IF dots = {} THEN 0 ELSE CHOOSE i \in dots : \A j \in dots : j <= i
    IN  SubSeq(name, last + 1, Len(name))

Extension(file) == <<".">> \o ToLowerCase(LastSegment(file.name))

TooLarge(file) == file.size > MAX_FILE_SIZE_MB * 1024 * 1024

\* validateFile: null, or the reason for rejecting
ValidateFile(file) ==
    IF Extension(file) \notin SUPPORTED_FILE_TYPES THEN "Unsupported file type"
    ELSE IF TooLarge(file) THEN "File too large"
    ELSE "null"

AcceptsEditMutant(v) == v.len <= MAX_TEXT_LENGTH + 1

\* TextInput.handleChange's test of the new value
AcceptsEdit(v) == v.len <= MAX_TEXT_LENGTH

Input(name, v, f) ==
    [name |-> name, value |-> v, file |-> f, text |-> text, selected |-> selectedFile]

ResultPageUnmounted ==
    /\ effectRan = FALSE
    /\ result = NullResult
    /\ displayText = <<>>
    /\ displayErrors = <<>>
    /\ activeError = NoError
    /\ currentSentenceIndex = 0
    /\ lastOp = NoOp

InitInput ==
    /\ session = [kind |-> "none", value |-> NullResult]
    /\ route = "/"
    /\ InputPageUnmounted
    /\ ResultPageUnmounted
    /\ EngineIdle
    /\ ServerOff

\* TextInput.handleChange -> setText
HandleChange(v) ==
    /\ route = "/"
    /\ inputMode = "text"
    /\ ~isLoading
    /\ text' = IF AcceptsEdit(v) THEN v ELSE text
    /\ lastInput' = Input("edit", v, NoFile)
    /\ UNCHANGED <<inputMode, ngramMode, selectedFile, isLoading, error,
                   uploadError, request>>

\* handleClearText; Clear is rendered while the text is not empty
HandleClearText ==
    /\ route = "/"
    /\ inputMode = "text"
    /\ ~isLoading
    /\ text.len > 0
    /\ text' = EmptyText
    /\ error' = "null"
    /\ lastInput' = Input("clear", EmptyText, NoFile)
    /\ UNCHANGED <<inputMode, ngramMode, selectedFile, isLoading, uploadError, request>>

\* InputModeToggle -> setInputMode; FileUpload is mounted in file mode only
SetInputMode(m) ==
    /\ route = "/"
    /\ ~isLoading
    /\ inputMode' = m
    /\ uploadError' = IF m = inputMode THEN uploadError ELSE "null"
    /\ lastInput' = Input("mode", EmptyText, NoFile)
    /\ UNCHANGED <<ngramMode, text, selectedFile, isLoading, error, request>>

\* ModeToggle -> setNgramMode
SetNgramMode(m) ==
    /\ route = "/"
    /\ ~isLoading
    /\ ngramMode' = m
    /\ lastInput' = Input("ngram", EmptyText, NoFile)
    /\ UNCHANGED <<inputMode, text, selectedFile, isLoading, error, uploadError, request>>

\* FileUpload.handleFile, with Home.handleFileSelect as onFileSelect
HandleFile(file) ==
    IF ValidateFile(file) # "null"
    THEN /\ uploadError' = ValidateFile(file)
         /\ UNCHANGED <<selectedFile, error>>
    ELSE /\ uploadError' = "null"
         /\ selectedFile' = file
         /\ error' = "null"

\* a drop handler that does not look at disabled
HandleDropMutant(file) ==
    /\ route = "/"
    /\ inputMode = "file"
    /\ HandleFile(file)
    /\ lastInput' = Input("drop", EmptyText, file)
    /\ UNCHANGED <<inputMode, ngramMode, text, isLoading, request>>

\* FileUpload.handleDrop
HandleDrop(file) ==
    /\ route = "/"
    /\ inputMode = "file"
    /\ IF isLoading
       THEN UNCHANGED <<selectedFile, error, uploadError>>
       ELSE HandleFile(file)
    /\ lastInput' = Input("drop", EmptyText, file)
    /\ UNCHANGED <<inputMode, ngramMode, text, isLoading, request>>

\* FileUpload.handleInputChange; the file input is disabled while loading
HandleInputChange(file) ==
    /\ route = "/"
    /\ inputMode = "file"
    /\ ~isLoading
    /\ HandleFile(file)
    /\ lastInput' = Input("pick", EmptyText, file)
    /\ UNCHANGED <<inputMode, ngramMode, text, isLoading, request>>

\* handleClearFile: Remove File
HandleClearFile ==
    /\ route = "/"
    /\ inputMode = "file"
    /\ ~isLoading
    /\ selectedFile # NoFile
    /\ selectedFile' = NoFile
    /\ error' = "null"
    /\ lastInput' = Input("remove", EmptyText, NoFile)
    /\ UNCHANGED <<inputMode, ngramMode, text, isLoading, uploadError, request>>

\* a page that lets every input through
CanSubmitMutant == TRUE

CanSubmit == IF inputMode = "text" THEN ~text.blank ELSE selectedFile # NoFile

RequestModeMutant == "trigram"

\* the mode checkText / checkFile is called with
RequestMode == ngramMode

\* handleSubmit up to its await: it returns at once when canSubmit is false,
\* and issues the request otherwise
HandleSubmit ==
    /\ route = "/"
    /\ ~isLoading
    /\ IF ~CanSubmit
       THEN /\ lastInput' = Input("blocked", EmptyText, NoFile)
            /\ UNCHANGED <<isLoading, error, request>>
       ELSE /\ isLoading' = TRUE
            /\ error' = "null"
            /\ request' = [kind |-> inputMode, ngram |-> RequestMode,
                           text |-> IF inputMode = "text" THEN text ELSE EmptyText,
                           file |-> IF inputMode = "text" THEN NoFile ELSE selectedFile]
            /\ lastInput' = Input("submit", EmptyText, NoFile)
    /\ UNCHANGED <<inputMode, ngramMode, text, selectedFile, uploadError>>

MaxResponseLen == 0

\* the results the service may answer with
Responses ==
    UNION {{[isNull |-> FALSE, originalText |-> t,
             correctedText |-> CorrectedText(t, l), errors |-> Parsed(l),
             sentences |-> SentenceList(IF t = <<>> THEN 0 ELSE 1),
             confidenceScore |-> 100] :
                l \in ErrorListsOn(t)} : t \in Strings(MaxResponseLen)}

\* handleSubmit after the await, the request fulfilled
RequestSucceeds(r) ==
    /\ route = "/"
    /\ request # NoRequest
    /\ session' = [kind |-> "ok", value |-> r]
    /\ route' = "/result"
    /\ isLoading' = FALSE
    /\ request' = NoRequest
    /\ lastInput' = Input("response", EmptyText, NoFile)
    /\ UNCHANGED <<inputMode, ngramMode, text, selectedFile, error, uploadError>>

\* a handler without the finally block
RequestFailsStillLoading ==
    /\ route = "/"
    /\ request # NoRequest
    /\ error' = "message"
    /\ request' = NoRequest
    /\ lastInput' = Input("failure", EmptyText, NoFile)
    /\ UNCHANGED <<session, route, inputMode, ngramMode, text, selectedFile,
                   isLoading, uploadError>>

\* a catch branch that navigates all the same
RequestFailsMutant ==
    /\ route = "/"
    /\ request # NoRequest
    /\ error' = "message"
    /\ route' = "/result"
    /\ isLoading' = FALSE
    /\ request' = NoRequest
    /\ lastInput' = Input("failure", EmptyText, NoFile)
    /\ UNCHANGED <<session, inputMode, ngramMode, text, selectedFile, uploadError>>

\* handleSubmit after the await, the request (or the storing) rejected
RequestFails ==
    /\ route = "/"
    /\ request # NoRequest
    /\ error' = "message"
    /\ isLoading' = FALSE
    /\ request' = NoRequest
    /\ lastInput' = Input("failure", EmptyText, NoFile)
    /\ UNCHANGED <<session, route, inputMode, ngramMode, text, selectedFile, uploadError>>

NextInput ==
    \/ \E v \in TextValues : HandleChange(v) /\ UNCHANGED <<session, route, resultVars, engineVars, serverVars>>
    \/ HandleClearText /\ UNCHANGED <<session, route, resultVars, engineVars, serverVars>>
    \/ \E m \in {"text", "file"} : SetInputMode(m) /\ UNCHANGED <<session, route, resultVars, engineVars, serverVars>>
    \/ \E m \in {"bigram", "trigram"} :
          SetNgramMode(m) /\ UNCHANGED <<session, route, resultVars, engineVars, serverVars>>
    \/ \E f \in Files : HandleDrop(f) /\ UNCHANGED <<session, route, resultVars, engineVars, serverVars>>
    \/ \E f \in Files : HandleInputChange(f) /\ UNCHANGED <<session, route, resultVars, engineVars, serverVars>>
    \/ HandleClearFile /\ UNCHANGED <<session, route, resultVars, engineVars, serverVars>>
    \/ HandleSubmit /\ UNCHANGED <<session, route, resultVars, engineVars, serverVars>>
    \/ \E r \in Responses : RequestSucceeds(r) /\ UNCHANGED <<resultVars, engineVars, serverVars>>
    \/ RequestFails /\ UNCHANGED <<resultVars, engineVars, serverVars>>

SpecInput == InitInput /\ [][NextInput]_vars

\* the rest of handleSubmit once the awaited promise has settled
Settles ==
    \/ \E r \in Responses : RequestSucceeds(r) /\ UNCHANGED <<resultVars, engineVars, serverVars>>
    \/ RequestFails /\ UNCHANGED <<resultVars, engineVars, serverVars>>

\* The input page with a request that settles: the continuation of an await
\* is a job the event loop runs once the promise is fulfilled or rejected.
SpecInputLive == InitInput /\ [][NextInput]_vars /\ WF_vars(Settles)

-----------------------------------------------------------------------------
\* Analysis engine: the backend the pages post to.  Probabilities are the
\* unigram relative frequencies of the LanguageModel (the context held
\* fixed), so comparing probabilities is comparing counts.

MaxWords == 4

MaxCount == 3

MaxSentences == 2

MAX_EDIT_DISTANCE == 2

THRESHOLD_RATIO == 2

CAP_PERCENT == 30

\* two words one edit apart and one word three edits from the shortest
Vocabulary == { <<"a">>, <<"a", "b">>, <<"b", "b", "b">> }

\* the models a corpus may build: a positive count for every vocabulary word
LanguageModels == [Vocabulary -> 1..MaxCount]

Words == { <<"a">>, <<"a", "b">>, <<"b">>, <<"A">> }

Separators == { <<" ">>, <<".", " ">> }

Terminals == { <<>>, <<".">> }

RECURSIVE DocumentsOf(_)
DocumentsOf(n) ==
    IF n = 1 THEN Words
    ELSE {d \o sep \o w : d \in DocumentsOf(n - 1), sep \in Separators, w \in Words}

IsLetter(c) == c \in {"a", "b", "A", "B"}

IsWhitespace(c) == c = " "

IsUpper(c) == c \in {"A", "B"}

UpperChar(c) == CASE c = "a" -> "A" [] c = "b" -> "B" [] OTHER -> c

RECURSIVE SortedSeq(_)
SortedSeq(S) ==
    IF S = {} THEN <<>>
    ELSE LET m == CHOOSE x \in S : \A y \in S : x <= y
         IN  <<m>> \o SortedSeq(S \ {m})

\* 4.1: a sentence ends after terminal punctuation followed by whitespace
Boundaries(str) ==
    {0, Len(str)}
    \cup {i \in 1..(Len(str) - 1) : str[i] = "." /\ IsWhitespace(str[i + 1])}

\* the sentences without the whitespace that separates them
SegmentMutant(str) ==
    IF \A i \in 1..Len(str) : IsWhitespace(str[i]) THEN <<>>
    ELSE LET b == SortedSeq(Boundaries(str))
         IN  [k \in 1..(Len(b) - 1) |->
                [start |-> IF k = 1 THEN b[k] ELSE b[k] + 1, end |-> b[k + 1]]]

\* 4.1 segment: the sentence spans, in order; none for empty or blank input
Segment(str) ==
    IF \A i \in 1..Len(str) : IsWhitespace(str[i]) THEN <<>>
    ELSE LET b == SortedSeq(Boundaries(str))
         IN  [k \in 1..(Len(b) - 1) |-> [start |-> b[k], end |-> b[k + 1]]]

\* the texts analyze is called with: empty, blank, or up to MaxWords words
\* in up to MaxSentences sentences
Documents ==
    { <<>>, <<" ">> }
    \cup {d \in UNION {{w \o t : w \in DocumentsOf(n), t \in Terminals} :
                           n \in 1..MaxWords} :
             Len(Segment(d)) <= MaxSentences}

\* the end of the maximal run of letters that starts at offset i
WordEnd(str, i) ==
    CHOOSE j \in (i + 1)..Len(str) :
        /\ \A k \in (i + 1)..j : IsLetter(str[k])
        /\ j = Len(str) \/ ~IsLetter(str[j + 1])

\* 4.1 tokenizer: word tokens are runs of letters, every other character
\* is a non-word token of its own
RECURSIVE TokensFrom(_, _)
TokensFrom(str, i) ==
    IF i >= Len(str) THEN <<>>
    ELSE IF IsLetter(str[i + 1])
         THEN LET j == WordEnd(str, i)
              IN  <<[text |-> SubSeq(str, i + 1, j), start |-> i, end |-> j,
                     isWord |-> TRUE]>> \o TokensFrom(str, j)
         ELSE <<[text |-> <<str[i + 1]>>, start |-> i, end |-> i + 1,
                 isWord |-> FALSE]>> \o TokensFrom(str, i + 1)

Tokenize(str) == TokensFrom(str, 0)

WordCount(toks) == Cardinality({i \in 1..Len(toks) : toks[i].isWord})

\* 4.5: insertions, deletions, substitutions, transpositions
RECURSIVE Distance(_, _, _, _)
Distance(a, b, i, j) ==
    IF i = 0 THEN j
    ELSE IF j = 0 THEN i
    ELSE LET cost == IF a[i] = b[j] THEN 0 ELSE 1
             del == Distance(a, b, i - 1, j) + 1
             ins == Distance(a, b, i, j - 1) + 1
             sub == Distance(a, b, i - 1, j - 1) + cost
             swap == IF i > 1 /\ j > 1 /\ a[i] = b[j - 1] /\ a[i - 1] = b[j]
                     THEN Distance(a, b, i - 2, j - 2) + 1
                     ELSE sub
         IN  Min(Min(del, ins), Min(sub, swap))

\* the distances between the words of the texts and of the vocabulary,
\* computed once
DistanceTable ==
    [p \in {ToLowerCase(w) : w \in Words \cup Vocabulary} \X Vocabulary |->
        Distance(p[1], p[2], Len(p[1]), Len(p[2]))]

EditDistance(a, b) ==
    IF <<a, b>> \in DOMAIN DistanceTable THEN DistanceTable[<<a, b>>]
    ELSE Distance(a, b, Len(a), Len(b))

CandidatesMutant(w, m) ==
    {v \in DOMAIN m : v # w /\ EditDistance(w, v) <= MAX_EDIT_DISTANCE + 1}

\* 4.5 step 1 and 4.7 step 2: vocabulary members within the distance
Candidates(w, m) ==
    {v \in DOMAIN m : v # w /\ EditDistance(w, v) <= MAX_EDIT_DISTANCE}

\* 4.5 step 2: ascending edit distance, then descending frequency
RanksBefore(u, v, w, m) ==
    \/ EditDistance(w, u) < EditDistance(w, v)
    \/ EditDistance(w, u) = EditDistance(w, v) /\ m[u] > m[v]

TopCandidate(w, m) ==
    LET c == Candidates(w, m)
    IN  CHOOSE v \in c : \A u \in c : ~RanksBefore(u, v, w, m)

ErrorAt(type, t, suggestion) ==
    [type |-> type, start |-> t.start, end |-> t.end, original |-> t.text,
     suggestion |-> suggestion]

\* 4.5 step 3: a word token outside the vocabulary is flagged when it has
\* a candidate
Misspelled(t, m) ==
    /\ t.isWord
    /\ ToLowerCase(t.text) \notin DOMAIN m
    /\ Candidates(ToLowerCase(t.text), m) # {}

RECURSIVE SpellingFrom(_, _, _)
SpellingFrom(toks, i, m) ==
    IF i > Len(toks) THEN <<>>
    ELSE (IF Misspelled(toks[i], m)
          THEN <<ErrorAt("Spelling", toks[i], TopCandidate(ToLowerCase(toks[i].text), m))>>
          ELSE <<>>) \o SpellingFrom(toks, i + 1, m)

SpellingErrors(toks, m) == SpellingFrom(toks, 1, m)

\* 4.7 step 3: the candidate of greatest probability
BestCandidate(w, m) ==
    LET c == Candidates(w, m)
    IN  CHOOSE v \in c : \A u \in c : m[u] <= m[v]

ExceedsThresholdMutant(w, m) ==
    /\ Candidates(w, m) # {}
    /\ m[BestCandidate(w, m)] >= THRESHOLD_RATIO * m[w]

\* 4.7 step 4, first condition: P_best > 2 x P_original
ExceedsThreshold(w, m) ==
    /\ Candidates(w, m) # {}
    /\ m[BestCandidate(w, m)] > THRESHOLD_RATIO * m[w]

\* an in-vocabulary word token whose best candidate passes the threshold
Substitutable(t, m) ==
    /\ t.isWord
    /\ ToLowerCase(t.text) \in DOMAIN m
    /\ ExceedsThreshold(ToLowerCase(t.text), m)

WithinCapMutant(count, n) == count * 100 <= CAP_PERCENT * n

\* 4.7 step 4, second condition: with this flag the running count stays at
\* or below 0.30 x sentence_word_count
WithinCap(count, n) == (count + 1) * 100 <= CAP_PERCENT * n

\* 4.7: the word tokens left to right, count the flags raised so far
RECURSIVE GrammarFrom(_, _, _, _, _)
GrammarFrom(toks, i, count, n, m) ==
    IF i > Len(toks) THEN <<>>
    ELSE IF Substitutable(toks[i], m) /\ WithinCap(count, n)
         THEN <<ErrorAt("Grammar", toks[i], BestCandidate(ToLowerCase(toks[i].text), m))>>
                \o GrammarFrom(toks, i + 1, count + 1, n, m)
         ELSE GrammarFrom(toks, i + 1, count, n, m)

GrammarErrors(toks, m) == GrammarFrom(toks, 1, 0, WordCount(toks), m)

\* 4.6: the rules that apply to these texts, each on the original sentence:
\* missing terminal punctuation, first letter not capitalized
PunctuationErrors(str) ==
    LET letters == {i \in 1..Len(str) : IsLetter(str[i])}
        first == CHOOSE i \in letters : \A j \in letters : i <= j
        terminal ==
            IF Len(str) > 0 /\ str[Len(str)] # "."
            THEN <<[type |-> "Punctuation", start |-> Len(str), end |-> Len(str),
                    original |-> <<>>, suggestion |-> <<".">>]>>
            ELSE <<>>
        capital ==
            IF letters # {} /\ ~IsUpper(str[first])
            THEN <<[type |-> "Punctuation", start |-> first - 1, end |-> first,
                    original |-> <<str[first]>>,
                    suggestion |-> <<UpperChar(str[first])>>]>>
            ELSE <<>>
    IN  terminal \o capital

InsertByStartMutant(sorted, e) == Append(sorted, e)

\* 4.9: one step of the stable sort by start offset
RECURSIVE InsertByStart(_, _)
InsertByStart(sorted, e) ==
    IF sorted = <<>> THEN <<e>>
    ELSE IF Head(sorted).start <= e.start
         THEN <<Head(sorted)>> \o InsertByStart(Tail(sorted), e)
         ELSE <<e>> \o sorted

RECURSIVE SortByStart(_, _)
SortByStart(l, k) ==
    IF k = 0 THEN <<>> ELSE InsertByStart(SortByStart(l, k - 1), l[k])

\* 4.9: the three lists in priority order, stably sorted by start offset
MergeErrors(spelling, grammar, punctuation) ==
    LET l == spelling \o grammar \o punctuation
    IN  SortByStart(l, Len(l))

\* 4.9: tokenize, run the three passes independently, merge, correct
AnalyzeSentenceText(str, index, m) ==
    LET toks == Tokenize(str)
        merged == MergeErrors(SpellingErrors(toks, m), GrammarErrors(toks, m),
                              PunctuationErrors(str))
        errors == [i \in 1..Len(merged) |->
                     [type |-> merged[i].type, start |-> merged[i].start,
                      end |-> merged[i].end, original |-> merged[i].original,
                      suggestion |-> merged[i].suggestion, sentenceIndex |-> index]]
    IN  [index |-> index, original |-> str,
         corrected |-> CorrectedText(str, errors), errors |-> errors]

RECURSIVE CumulativeOffsetMutant(_, _)
CumulativeOffsetMutant(as, k) ==
    IF k <= 1 THEN 0
    ELSE CumulativeOffsetMutant(as, k - 1) + Len(as[k - 1].corrected)

\* 4.9: the characters of the sentences that precede sentence k
RECURSIVE CumulativeOffset(_, _)
CumulativeOffset(as, k) ==
    IF k <= 1 THEN 0
    ELSE CumulativeOffset(as, k - 1) + Len(as[k - 1].original)

Reoffset(e, offset) ==
    [e EXCEPT !.start = @ + offset, !.end = @ + offset]

\* 4.9: the document's error list, sentence by sentence
RECURSIVE DocumentErrors(_, _)
DocumentErrors(as, k) ==
    IF k = 0 THEN <<>>
    ELSE DocumentErrors(as, k - 1)
           \o [i \in 1..Len(as[k].errors) |->
                 Reoffset(as[k].errors[i], CumulativeOffset(as, k))]

RECURSIVE DocumentCorrected(_, _)
DocumentCorrected(as, k) ==
    IF k = 0 THEN <<>> ELSE DocumentCorrected(as, k - 1) \o as[k].corrected

InitEngine ==
    /\ session = [kind |-> "none", value |-> NullResult]
    /\ route = "none"
    /\ InputPageUnmounted
    /\ ResultPageUnmounted
    /\ model \in LanguageModels
    /\ docText \in Documents
    /\ phase = "start"
    /\ sentences = <<>>
    /\ analyses = <<>>
    /\ engineResult = NoEngineResult
    /\ ServerOff

\* analyze: segment the text
SegmentText ==
    /\ phase = "start"
    /\ sentences' = Segment(docText)
    /\ phase' = "sentences"
    /\ UNCHANGED <<model, docText, analyses, engineResult>>

\* analyze: the next sentence, in order
AnalyzeSentence ==
    /\ phase = "sentences"
    /\ Len(analyses) < Len(sentences)
    /\ LET k == Len(analyses) + 1
           str == Slice(docText, sentences[k].start, sentences[k].end)
       IN  analyses' = Append(analyses, AnalyzeSentenceText(str, k - 1, model))
    /\ UNCHANGED <<model, docText, phase, sentences, engineResult>>

\* 4.8: the scores the fluency scorer may report, one low and one high
ConfidenceValues == {0, 100}

ConfidenceOfMutant(as) == ConfidenceValues

\* 4.8 and 7: the document confidence is the mean of the sentence scores,
\* some value of the scale; with no sentence it is reported as 100
ConfidenceOf(as) == IF as = <<>> THEN {100} ELSE ConfidenceValues

\* analyze: aggregate the sentences into the document result
Aggregate ==
    /\ phase = "sentences"
    /\ Len(analyses) = Len(sentences)
    /\ \E c \in ConfidenceOf(analyses) :
         engineResult' =
           [originalText |-> docText,
            correctedText |-> DocumentCorrected(analyses, Len(analyses)),
            errors |-> DocumentErrors(analyses, Len(analyses)),
            sentences |-> analyses,
            confidenceScore |-> c]
    /\ phase' = "done"
    /\ UNCHANGED <<model, docText, sentences, analyses>>

NextEngine ==
    \/ SegmentText /\ UNCHANGED <<session, route, resultVars, inputVars, serverVars>>
    \/ AnalyzeSentence /\ UNCHANGED <<session, route, resultVars, inputVars, serverVars>>
    \/ Aggregate /\ UNCHANGED <<session, route, resultVars, inputVars, serverVars>>

SpecEngine == InitEngine /\ [][NextEngine]_vars

-----------------------------------------------------------------------------
\* Backend process: the model is built at startup, then any number of
\* analyze calls and health queries are served concurrently.

MaxCalls == 2

MaxRequestLen == 4

CallIds == 1..MaxCalls

\* the corpora the model is built from, as the words they hold
Corpora ==
    << << <<"a">>, <<"a", "b">>, <<"a", "b">> >>,
       << <<"a", "b">>, <<"b", "b", "b">> >> >>

Occurrences(corpus, w) == Cardinality({i \in 1..Len(corpus) : corpus[i] = w})

\* 4.2 build: every unigram of the corpus increments its count
AddCorpus(m, corpus) ==
    [w \in DOMAIN m \cup {corpus[i] : i \in 1..Len(corpus)} |->
        (IF w \in DOMAIN m THEN m[w] ELSE 0) + Occurrences(corpus, w)]

RECURSIVE TotalWords(_)
TotalWords(m) ==
    IF DOMAIN m = {} THEN 0
    ELSE LET w == CHOOSE v \in DOMAIN m : TRUE
         IN  m[w] + TotalWords([v \in DOMAIN m \ {w} |-> m[v]])

\* the texts of the requests
RequestTexts == {d \in Documents : Len(d) <= MaxRequestLen}

NoCall == [docText |-> <<>>, phase |-> "none", result |-> NoEngineResult]

NoWork == [sentences |-> <<>>, analyses |-> <<>>]

WorkspaceMutant(c) == 1

\* 5: the working state of a call is its own
Workspace(c) == c

ModelLoadedMutant == startup # "failed"

\* 5 and 6: the readiness signal is "model loaded"
ModelLoaded == startup = "ready"

InitServer ==
    /\ session = [kind |-> "none", value |-> NullResult]
    /\ route = "none"
    /\ InputPageUnmounted
    /\ ResultPageUnmounted
    /\ EngineIdle
    /\ startup = "loading"
    /\ loaded = 0
    /\ partial = <<>>
    /\ calls = [c \in CallIds |-> NoCall]
    /\ work = [c \in CallIds |-> NoWork]
    /\ health = NoHealth

\* startup: count the next corpus
LoadCorpus ==
    /\ startup = "loading"
    /\ loaded < Len(Corpora)
    /\ partial' = AddCorpus(partial, Corpora[loaded + 1])
    /\ loaded' = loaded + 1
    /\ UNCHANGED <<model, startup, calls, work, health>>

\* startup: a corpus cannot be read; the process does not come up
LoadFails ==
    /\ startup = "loading"
    /\ loaded < Len(Corpora)
    /\ startup' = "failed"
    /\ UNCHANGED <<model, loaded, partial, calls, work, health>>

\* startup: every corpus is counted, the model is handed to the engine
FinishLoading ==
    /\ startup = "loading"
    /\ loaded = Len(Corpora)
    /\ model' = partial
    /\ startup' = "ready"
    /\ UNCHANGED <<loaded, partial, calls, work, health>>

\* GET /health, answered while the process lives
HealthCheck ==
    /\ startup \in {"loading", "ready"}
    /\ health' = [answered |-> TRUE, modelLoaded |-> ModelLoaded,
                  vocabularySize |-> Cardinality(DOMAIN model),
                  totalWords |-> TotalWords(model)]
    /\ UNCHANGED <<model, startup, loaded, partial, calls, work>>

\* a request arrives: analyze is called with its text
ReceiveRequest(c, str) ==
    /\ ModelLoaded
    /\ calls[c].phase = "none"
    /\ calls' = [calls EXCEPT ![c] = [docText |-> str, phase |-> "start",
                                      result |-> NoEngineResult]]
    /\ UNCHANGED <<model, startup, loaded, partial, work, health>>

\* analyze of call c: segment the text
CallSegment(c) ==
    /\ calls[c].phase = "start"
    /\ work' = [work EXCEPT ![Workspace(c)] =
                  [sentences |-> Segment(calls[c].docText), analyses |-> <<>>]]
    /\ calls' = [calls EXCEPT ![c].phase = "sentences"]
    /\ UNCHANGED <<model, startup, loaded, partial, health>>

\* analyze of call c: the next sentence
CallAnalyze(c) ==
    LET w == work[Workspace(c)]
        k == Len(w.analyses) + 1
    IN  /\ calls[c].phase = "sentences"
        /\ Len(w.analyses) < Len(w.sentences)
        /\ work' = [work EXCEPT ![Workspace(c)].analyses =
                      Append(w.analyses,
                             AnalyzeSentenceText(
                                 Slice(calls[c].docText, w.sentences[k].start,
                                       w.sentences[k].end), k - 1, model))]
        /\ UNCHANGED <<model, startup, loaded, partial, calls, health>>

\* analyze of call c: aggregate and return
CallAggregate(c) ==
    LET w == work[Workspace(c)]
    IN  /\ calls[c].phase = "sentences"
        /\ Len(w.analyses) = Len(w.sentences)
        /\ \E score \in ConfidenceOf(w.analyses) :
             calls' = [calls EXCEPT
                ![c].phase = "done",
                ![c].result =
                  [originalText |-> calls[c].docText,
                   correctedText |-> DocumentCorrected(w.analyses, Len(w.analyses)),
                   errors |-> DocumentErrors(w.analyses, Len(w.analyses)),
                   sentences |-> w.analyses,
                   confidenceScore |-> score]]
        /\ UNCHANGED <<model, startup, loaded, partial, work, health>>

pageVars == <<session, route, resultVars, inputVars>>

callVars == <<docText, phase, sentences, analyses, engineResult>>

NextServer ==
    \/ LoadCorpus /\ UNCHANGED <<pageVars, callVars>>
    \/ LoadFails /\ UNCHANGED <<pageVars, callVars>>
    \/ FinishLoading /\ UNCHANGED <<pageVars, callVars>>
    \/ HealthCheck /\ UNCHANGED <<pageVars, callVars>>
    \/ \E c \in CallIds, str \in RequestTexts :
          ReceiveRequest(c, str) /\ UNCHANGED <<pageVars, callVars>>
    \/ \E c \in CallIds : CallSegment(c) /\ UNCHANGED <<pageVars, callVars>>
    \/ \E c \in CallIds : CallAnalyze(c) /\ UNCHANGED <<pageVars, callVars>>
    \/ \E c \in CallIds : CallAggregate(c) /\ UNCHANGED <<pageVars, callVars>>

SpecServer == InitServer /\ [][NextServer]_vars

-----------------------------------------------------------------------------
\* Properties of the result page

\* the 'Corrected' panel of the comparison view
CorrectedPanel == IF Len(displayErrors) = 0 THEN displayText ELSE result.correctedText

\* the last handler was Apply Fix for an error that was in displayErrors
FixedListedError ==
    /\ lastOp.name = "fix"
    /\ lastOp.error.id \in Ids(lastOp.errors)

\* the characters of text before index n and from index n on, read literally
Before(str, n) == SubSeq(str, 1, Min(Max(n, 0), Len(str)))

From(str, n) == SubSeq(str, Max(n, 0) + 1, Len(str))

\* C1: every error in displayErrors spans, in displayText, exactly its original
\* text (positions always refer to the current display text).
C1_PositionsReferToDisplayText ==
    ~result.isNull =>
        \A i \in 1..Len(displayErrors) :
            Slice(displayText, displayErrors[i].start, displayErrors[i].end)
                = displayErrors[i].original

\* C2: applying the fix of f shifts by delta = |suggestion| - |original| every
\* other error that starts at or after f's end, and leaves in place every error
\* that ends at or before f's start.
C2_ShiftAfterFix ==
    FixedListedError =>
        LET f     == lastOp.error
            prev  == WithoutError(lastOp.errors, f)
            delta == Len(f.suggestion) - Len(f.original)
        IN  /\ Len(displayErrors) = Len(prev)
            /\ \A j \in 1..Len(prev) :
                /\ prev[j].start >= f.end =>
                      /\ displayErrors[j].start = prev[j].start + delta
                      /\ displayErrors[j].end = prev[j].end + delta
                /\ prev[j].end <= f.start =>
                      /\ displayErrors[j].start = prev[j].start
                      /\ displayErrors[j].end = prev[j].end

\* C3: Apply Fix of a displayed error f replaces exactly the characters
\* [f.start, f.end) of the text by f.suggestion and removes exactly f.
C3_FixSplicesAndRemoves ==
    FixedListedError =>
        LET f    == lastOp.error
            prev == WithoutError(lastOp.errors, f)
        IN  /\ displayText = Before(lastOp.text, f.start) \o f.suggestion
                                \o From(lastOp.text, f.end)
            /\ Len(displayErrors) = Len(lastOp.errors) - 1
            /\ Len(displayErrors) = Len(prev)
            /\ \A j \in 1..Len(prev) :
                /\ displayErrors[j].original = prev[j].original
                /\ displayErrors[j].suggestion = prev[j].suggestion
                /\ displayErrors[j].end - displayErrors[j].start
                      = prev[j].end - prev[j].start

\* C4: the 'Corrected' panel shows result.correctedText in every state; in
\* particular the text reached by fixing every error one at a time is it.
C4_CorrectedPanelIsCorrectedText ==
    ~result.isNull => CorrectedPanel = result.correctedText

\* C5: after Reset the page is in the state right after loading: the original
\* text and the stored errors with the positions the engine returned.
C5_ResetRestoresLoadedState ==
    lastOp.name = "reset" =>
        /\ displayText = session.value.originalText
        /\ displayErrors = session.value.errors
        /\ result = session.value

C5_Witness ==
    /\ lastOp.name = "reset"
    /\ Len(lastOp.errors) < Len(result.errors)
    /\ \E j \in 1..Len(lastOp.errors) : lastOp.errors[j].id \notin Ids(result.errors)

-----------------------------------------------------------------------------
\* Properties of the input page

EndsWith(s, suffix) ==
    /\ Len(s) >= Len(suffix)
    /\ SubSeq(s, Len(s) - Len(suffix) + 1, Len(s)) = suffix

\* C6: the text never exceeds MAX_TEXT_LENGTH characters; an edit to a longer
\* value leaves the text as it was, an edit to a value within the limit is taken.
C6_TextWithinLimit ==
    /\ text.len <= MAX_TEXT_LENGTH
    /\ lastInput.name = "edit" =>
          text = IF lastInput.value.len > MAX_TEXT_LENGTH
                 THEN lastInput.text ELSE lastInput.value

C6_Witness ==
    /\ lastInput.name = "edit"
    /\ lastInput.value.len > MAX_TEXT_LENGTH
    /\ text.len = MAX_TEXT_LENGTH

\* C7: the selected file is none, or a file whose name ends in .txt or .docx
\* (case-insensitively) and whose size is at most 5 MB.
C7_SelectedFileIsSupported ==
    selectedFile # NoFile =>
        /\ \/ EndsWith(ToLowerCase(selectedFile.name), <<".", "t", "x", "t">>)
           \/ EndsWith(ToLowerCase(selectedFile.name), <<".", "d", "o", "c", "x">>)
        /\ selectedFile.size <= 5 * 1024 * 1024


-----------------------------------------------------------------------------
\* Properties of the analysis engine

ErrorsOfType(a, type) == {i \in 1..Len(a.errors) : a.errors[i].type = type}

\* the tokens of a sentence whose best candidate passes the 2x threshold
SubstitutableTokens(a) ==
    LET toks == Tokenize(a.original)
    IN  {i \in 1..Len(toks) : Substitutable(toks[i], model)}

MisspelledTokens(a) ==
    LET toks == Tokenize(a.original)
    IN  {i \in 1..Len(toks) : Misspelled(toks[i], model)}

Priority(type) ==
    CASE type = "Spelling" -> 1 [] type = "Grammar" -> 2 [] OTHER -> 3

\* C9: every sentence's merged list is ordered by ascending start, equal
\* starts are ordered Spelling, Grammar, Punctuation, and no token has both
\* a Spelling and a Grammar error.
C9_MergedOrder ==
    \A k \in 1..Len(analyses) :
        LET es == analyses[k].errors
        IN  /\ \A i, j \in 1..Len(es) :
                  i < j =>
                    /\ es[i].start <= es[j].start
                    /\ es[i].start = es[j].start
                         => Priority(es[i].type) <= Priority(es[j].type)
            /\ ~ \E i, j \in 1..Len(es) :
                  /\ es[i].type = "Spelling"
                  /\ es[j].type = "Grammar"
                  /\ es[i].start < es[j].end
                  /\ es[j].start < es[i].end

\* a sentence whose merged list has a tie between two kinds, and a Grammar
\* error that the sort moved in front of a Spelling error
C9_Witness ==
    \E k \in 1..Len(analyses) :
        LET es == analyses[k].errors
        IN  /\ \E i, j \in 1..Len(es) :
                  i < j /\ es[i].start = es[j].start /\ es[i].type # es[j].type
            /\ \E i, j \in 1..Len(es) :
                  i < j /\ es[i].type = "Grammar" /\ es[j].type = "Spelling"

\* the characters of the sentence spans that precede sentence k
RECURSIVE PrecedingLength(_)
PrecedingLength(k) ==
    IF k <= 1 THEN 0
    ELSE PrecedingLength(k - 1) + (sentences[k - 1].end - sentences[k - 1].start)

\* the errors of the sentences that precede sentence k
RECURSIVE PrecedingErrors(_)
PrecedingErrors(k) ==
    IF k <= 1 THEN 0 ELSE PrecedingErrors(k - 1) + Len(analyses[k - 1].errors)

\* C10: the document's error list holds every sentence's errors, each at its
\* local position plus the length of the sentences before it, and
\* originalText[start, end) is the error's original.
C10_DocumentPositions ==
    phase = "done" =>
        /\ Len(engineResult.errors) = PrecedingErrors(Len(analyses) + 1)
        /\ \A k \in 1..Len(analyses) : \A i \in 1..Len(analyses[k].errors) :
              LET local == analyses[k].errors[i]
                  e == engineResult.errors[PrecedingErrors(k) + i]
              IN  /\ e.start = local.start + PrecedingLength(k)
                  /\ e.end = local.end + PrecedingLength(k)
                  /\ e.original = local.original
                  /\ e.sentenceIndex = k - 1
                  /\ Slice(engineResult.originalText, e.start, e.end) = e.original

\* a finished document with a non-empty error in a later sentence, whose
\* earlier sentence was itself changed in length by its corrections
C10_Witness ==
    /\ phase = "done"
    /\ \E n \in 1..Len(engineResult.errors) :
          /\ engineResult.errors[n].sentenceIndex >= 1
          /\ engineResult.errors[n].end > engineResult.errors[n].start
    /\ Len(analyses[1].corrected) # Len(analyses[1].original)


VocabularyTokens(a) ==
    LET toks == Tokenize(a.original)
    IN  {t \in 1..Len(toks) :
           toks[t].isWord /\ ToLowerCase(toks[t].text) \in DOMAIN model}

\* the greatest probability among the vocabulary words within two edits of w
BestProbability(w) ==
    LET c == {model[v] : v \in {u \in DOMAIN model : u # w /\ EditDistance(w, u) <= 2}}
    IN  IF c = {} THEN 0 ELSE CHOOSE x \in c : \A y \in c : y <= x

\* C12: an in-vocabulary word carries a Grammar error only if its best
\* candidate is strictly more than 2 times as probable as the word, and the
\* suggestion is such a candidate; a word whose best candidate is at most 2
\* times as probable is never flagged.
C12_GrammarThreshold ==
    \A k \in 1..Len(analyses) :
        LET a == analyses[k]
            toks == Tokenize(a.original)
        IN  \A t \in VocabularyTokens(a) :
              LET w == ToLowerCase(toks[t].text)
                  flags == {i \in ErrorsOfType(a, "Grammar") :
                              a.errors[i].start = toks[t].start}
              IN  /\ BestProbability(w) <= 2 * model[w] => flags = {}
                  /\ \A i \in flags :
                        /\ BestProbability(w) > 2 * model[w]
                        /\ model[ToLowerCase(a.errors[i].suggestion)] > 2 * model[w]

\* a sentence the cap leaves room in, with a word whose best candidate is
\* exactly 2 times as probable and which is not flagged
C12_Witness ==
    \E k \in 1..Len(analyses) :
        LET a == analyses[k]
            toks == Tokenize(a.original)
        IN  /\ WordCount(toks) = MaxWords
            /\ ErrorsOfType(a, "Grammar") = {}
            /\ \E t \in VocabularyTokens(a) :
                  BestProbability(ToLowerCase(toks[t].text))
                    = 2 * model[ToLowerCase(toks[t].text)]

Blank(str) == \A i \in 1..Len(str) : str[i] = " "

\* C13: analyze on empty or whitespace-only text finds no sentence, and its
\* result has zero sentences, zero errors, confidence 100 and the text itself
\* as original and corrected text.
C13_BlankInput ==
    Blank(docText) =>
        /\ phase \in {"start", "sentences", "done"}
        /\ sentences = <<>>
        /\ analyses = <<>>
        /\ phase = "done" =>
              /\ engineResult.sentences = <<>>
              /\ engineResult.errors = <<>>
              /\ engineResult.confidenceScore = 100
              /\ engineResult.originalText = docText
              /\ engineResult.correctedText = <<>>

\* the analysis of a whitespace-only text has finished
C13_Witness ==
    /\ docText = <<" ">>
    /\ phase = "done"

RECURSIVE ConcatTexts(_)
ConcatTexts(toks) ==
    IF toks = <<>> THEN <<>> ELSE Head(toks).text \o ConcatTexts(Tail(toks))

\* the tokens of str follow one another from 0 to its length, each holding
\* the characters of its span, and their texts concatenated are str
TokensCover(str) ==
    LET toks == Tokenize(str)
    IN  /\ Len(str) > 0 => Len(toks) > 0 /\ toks[1].start = 0
                             /\ toks[Len(toks)].end = Len(str)
        /\ \A t \in 1..Len(toks) :
              /\ toks[t].start < toks[t].end
              /\ toks[t].text = SubSeq(str, toks[t].start + 1, toks[t].end)
              /\ t < Len(toks) => toks[t].end = toks[t + 1].start
        /\ ConcatTexts(toks) = str

\* every analysed sentence is the text of its span and its tokens cover it
AnalysedSentencesCovered ==
    \A k \in 1..Len(analyses) :
        /\ analyses[k].original
             = SubSeq(docText, sentences[k].start + 1, sentences[k].end)
        /\ TokensCover(analyses[k].original)

\* every character of the text lies in exactly one sentence span
EveryCharacterInOneSentence ==
    /\ \A k \in 1..Len(sentences) :
          0 <= sentences[k].start /\ sentences[k].start < sentences[k].end
             /\ sentences[k].end <= Len(docText)
    /\ \A i \in 0..(Len(docText) - 1) :
          Cardinality({k \in 1..Len(sentences) :
                         sentences[k].start <= i /\ i < sentences[k].end}) = 1

-----------------------------------------------------------------------------
\* Properties of the backend process

\* the sentence analyses of a text analysed on its own
AnalysesAlone(str, m) ==
    LET s == Segment(str)
    IN  [k \in 1..Len(s) |->
           AnalyzeSentenceText(SubSeq(str, s[k].start + 1, s[k].end), k - 1, m)]

\* every returned result is the one the call would return if run alone
ResultsAsAlone ==
    \A c \in DOMAIN calls :
        calls[c].phase = "done" =>
            LET as == AnalysesAlone(calls[c].docText, model)
                r == calls[c].result
            IN  /\ r.originalText = calls[c].docText
                /\ r.sentences = as
                /\ r.errors = DocumentErrors(as, Len(as))
                /\ r.correctedText = DocumentCorrected(as, Len(as))
                /\ r.confidenceScore \in ConfidenceOf(as)

\* once built the model stays as it is
ModelReadOnly == startup = "ready" => model' = model /\ startup' = "ready"

\* a step that changes one call's state changes no other call's state
CallsIsolated ==
    \A c, d \in DOMAIN calls :
        (c # d /\ (calls'[c] # calls[c] \/ work'[c] # work[c]))
            => (calls'[d] = calls[d] /\ work'[d] = work[d])

\* C15: the model is never modified after construction; under every
\* interleaving of the analyze calls no call changes the model or the state
\* of another call, and each call returns the result it would return alone.
C15_IndependentCalls ==
    /\ []ResultsAsAlone
    /\ [][ModelReadOnly /\ CallsIsolated]_vars

\* one call has returned errors while another, on a different text, is in
\* the middle of its sentences
C15_Witness ==
    /\ startup = "ready"
    /\ calls[1].phase = "done"
    /\ calls[1].result.errors # <<>>
    /\ calls[2].phase = "sentences"
    /\ Len(work[2].sentences) = 2
    /\ Len(work[2].analyses) = 1
    /\ calls[2].docText # calls[1].docText

\* what the health signal and the calls show of the startup
ReadyOnlyWhenLoaded ==
    /\ health.modelLoaded =>
          /\ startup = "ready"
          /\ loaded = Len(Corpora)
          /\ model = partial
    /\ startup = "failed" => ~health.modelLoaded
    /\ \A c \in DOMAIN calls :
          calls[c].phase # "none" =>
              /\ startup = "ready"
              /\ loaded = Len(Corpora)
              /\ model = partial

\* C16: the health signal reports "model loaded" only once every corpus is
\* counted and the model handed over; after a failed load the process never
\* becomes ready, never reports ready, and no call is ever served.
C16_ReadyOnlyAfterLoading ==
    /\ []ReadyOnlyWhenLoaded
    /\ [][startup = "failed" => startup' = "failed"]_vars

\* the health signal has reported the loaded model and a call was served
C16_Witness ==
    /\ health.answered
    /\ health.modelLoaded
    /\ health.vocabularySize = 3
    /\ health.totalWords = 5
    /\ \E c \in DOMAIN calls : calls[c].phase = "done"

-----------------------------------------------------------------------------
\* Further properties of the input page

\* the request in flight carries the selected mode, one of the two
RequestCarriesSelectedMode ==
    request # NoRequest =>
        /\ request.ngram = ngramMode
        /\ request.ngram \in {"bigram", "trigram"}
        /\ request.kind \in {"text", "file"}

\* C17: every analysis request, text or file, carries the n-gram mode that
\* is selected when it is submitted; the mode is 'bigram' or 'trigram', it
\* starts as 'trigram' and only the mode toggle changes it.
C17_RequestMode ==
    /\ ngramMode = "trigram"
    /\ []RequestCarriesSelectedMode
    /\ [][ngramMode' # ngramMode => lastInput'.name = "ngram"]_vars

\* a file request in flight after the user switched to bigram
C17_Witness ==
    /\ request # NoRequest
    /\ request.kind = "file"
    /\ request.ngram = "bigram"
    /\ lastInput.name = "submit"

-----------------------------------------------------------------------------
\* Further properties of the result page

\* C18: closing the tooltip by Escape, by a press outside it, by its close
\* button or by Ignore clears the active error and leaves displayText and
\* displayErrors as they were; the error stays listed at the same position.
C18_CloseChangesNothing ==
    lastOp.name \in CloseWays =>
        /\ activeError = NoError
        /\ displayText = lastOp.text
        /\ displayErrors = lastOp.errors
        /\ \A i \in 1..Len(lastOp.errors) :
              lastOp.errors[i].id = lastOp.error.id => displayErrors[i] = lastOp.error

\* Ignore was pressed for a listed error after an earlier fix
C18_Witness ==
    /\ lastOp.name = "ignore"
    /\ lastOp.error.id \in Ids(displayErrors)
    /\ displayText # result.originalText

\* C19: an open tooltip holds an error that is in displayErrors, with its
\* current position, whatever clicks, fixes, Apply All and Reset came before;
\* so Apply Fix only ever runs for an error that is listed.
C19_TooltipErrorIsListed ==
    /\ activeError # NoError =>
          \E i \in 1..Len(displayErrors) : displayErrors[i] = activeError
    /\ lastOp.name = "fix" => lastOp.error.id \in Ids(lastOp.errors)

RECURSIVE ConcatSegments(_)
ConcatSegments(segs) ==
    IF segs = <<>> THEN <<>> ELSE Head(segs).text \o ConcatSegments(Tail(segs))

SpansInsideText ==
    \A i \in 1..Len(displayErrors) :
        /\ 0 <= displayErrors[i].start
        /\ displayErrors[i].start <= displayErrors[i].end
        /\ displayErrors[i].end <= Len(displayText)

\* C20: when every error span lies inside the display text, the segments run
\* from 0 to the text length in ascending order without gap or overlap,
\* their texts concatenated are the display text, and every error is carried
\* by exactly one segment, which spans exactly its [start, end).
C20_SegmentsPartitionText ==
    (~result.isNull /\ SpansInsideText) =>
        LET segs == Segments(displayText, displayErrors)
        IN  /\ Len(segs) > 0
            /\ segs[1].start = 0
            /\ segs[Len(segs)].end = Len(displayText)
            /\ \A j \in 1..Len(segs) :
                  /\ segs[j].start <= segs[j].end
                  /\ j < Len(segs) => segs[j].end = segs[j + 1].start
            /\ ConcatSegments(segs) = displayText
            /\ \A i \in 1..Len(displayErrors) :
                  /\ Cardinality({j \in 1..Len(segs) :
                                    segs[j].error = displayErrors[i]}) = 1
                  /\ \A j \in 1..Len(segs) :
                        segs[j].error = displayErrors[i] =>
                          /\ segs[j].start = displayErrors[i].start
                          /\ segs[j].end = displayErrors[i].end

-----------------------------------------------------------------------------
\* The text and the list handleApplyFix(err) leaves, as a value
AfterFix(str, errors, err) ==
    [text   |-> FixedText(str, err),
     errors |-> ShiftedErrors(WithoutError(errors, err), err,
                              Len(err.suggestion) - Len(err.original),
                              Ids(result.errors) \cup Ids(errors) \cup {err.id})]

\* an error list without the objects' identities
Plain(errors) ==
    [j \in 1..Len(errors) |->
        [start |-> errors[j].start, end |-> errors[j].end,
         original |-> errors[j].original, suggestion |-> errors[j].suggestion]]

\* fixing displayErrors[i] and then what the list shows for displayErrors[j]
FixBoth(i, j) ==
    LET first == AfterFix(displayText, displayErrors, displayErrors[i])
        other == first.errors[IF j > i THEN j - 1 ELSE j]
    IN  AfterFix(first.text, first.errors, other)

\* C21: individual fixes commute: for any two displayed errors, fixing one and
\* then the other gives the same text and the same remaining errors, at the
\* same positions, as fixing them in the other order.
C21_FixesCommute ==
    ~result.isNull =>
        \A i, j \in 1..Len(displayErrors) :
            i < j =>
                /\ FixBoth(i, j).text = FixBoth(j, i).text
                /\ Plain(FixBoth(i, j).errors) = Plain(FixBoth(j, i).errors)

-----------------------------------------------------------------------------
\* the request handleSubmit would issue for the inputs the page shows
RequestForInputs ==
    [kind |-> inputMode, ngram |-> ngramMode,
     text |-> IF inputMode = "text" THEN text ELSE EmptyText,
     file |-> IF inputMode = "text" THEN NoFile ELSE selectedFile]

\* a request is in flight exactly while the page is loading, and it is the
\* request for the inputs shown
InFlightMatchesInputs ==
    /\ isLoading <=> request # NoRequest
    /\ isLoading => request = RequestForInputs

\* while loading no step changes an input or starts another request
FrozenWhileLoading ==
    isLoading =>
        /\ text' = text
        /\ selectedFile' = selectedFile
        /\ inputMode' = inputMode
        /\ ngramMode' = ngramMode
        /\ request' \in {request, NoRequest}
        /\ session' # session => request = RequestForInputs

\* C22: while a request is in flight no second request starts and the text,
\* the file, the input mode and the n-gram mode do not change, so the stored
\* result answers the request for the inputs that are shown.
C22_InputsFrozenWhileLoading ==
    []InFlightMatchesInputs /\ [][FrozenWhileLoading]_vars

\* a file was dropped on the upload zone while a file request was in flight
C22_Witness ==
    /\ isLoading
    /\ lastInput.name = "drop"
    /\ request.kind = "file"
    /\ lastInput.file # selectedFile

-----------------------------------------------------------------------------
\* a step that leaves the input page for the result page has just stored a
\* successful response
NavigatesAfterStoring ==
    (route = "/" /\ route' = "/result") =>
        /\ request # NoRequest
        /\ lastInput'.name = "response"
        /\ session'.kind = "ok"
        /\ session'.value \in Responses

\* a step in which the request fails does not navigate, stores nothing and
\* sets the error message
FailureStaysOnInputPage ==
    (request # NoRequest /\ lastInput'.name = "failure") =>
        /\ route' = route
        /\ session' = session
        /\ error' # "null"

\* nothing but a successful response writes the stored item
OnlyResponsesAreStored ==
    session' # session => lastInput'.name = "response"

\* C23: the page navigates to the result page only after a successful response
\* has been stored under 'grammarAnalysisResult'; when the request or the
\* storing fails there is no navigation, nothing new is stored and an error
\* message is set.
C23_NavigateOnlyAfterStoring ==
    [][NavigatesAfterStoring /\ FailureStaysOnInputPage /\ OnlyResponsesAreStored]_vars

\* a request succeeded, its result was stored and the page navigated
C23_Witness ==
    /\ route = "/result"
    /\ session.kind = "ok"
    /\ lastInput.name = "response"
    /\ error = "null"
    /\ ~isLoading

-----------------------------------------------------------------------------
\* once the request has settled the page is not loading
SettledNotLoading == request = NoRequest => ~isLoading

\* C24: every submission that sets isLoading is followed by isLoading becoming
\* false once the request settles, by success or by failure; the page is never
\* loading after the request has settled.
C24_LoadingEnds ==
    (isLoading ~> ~isLoading) /\ []SettledNotLoading

\* a submission whose request failed: the page is no longer loading
C24_Witness ==
    /\ lastInput.name = "failure"
    /\ ~isLoading
    /\ request = NoRequest
    /\ error = "message"

-----------------------------------------------------------------------------
\* the request in flight carries text with a character that is not whitespace,
\* or a file
RequestHasInput ==
    /\ request.kind = "text" => (~request.text.blank /\ request.text.len > 0)
    /\ request.kind = "file" => request.file # NoFile

\* handleSubmit ran while canSubmit was false: nothing but the history moved
BlockedSubmitChangesNothing ==
    lastInput'.name = "blocked" =>
        UNCHANGED <<session, route, inputMode, ngramMode, text, selectedFile,
                    isLoading, error, uploadError, request>>

\* a step that starts loading or issues a request was taken with input present
RequestOnlyWithInput ==
    ((~isLoading /\ isLoading') \/ (request = NoRequest /\ request' # NoRequest)) =>
        IF inputMode = "text" THEN ~text.blank ELSE selectedFile # NoFile

-----------------------------------------------------------------------------
\* with no result the page shows the loading screen, holds no text, no errors
\* and no tooltip, and once the mount effect has run it has left for '/'
NullResultShowsNothing ==
    /\ result.isNull =>
          /\ Renders = "loading"
          /\ displayText = <<>>
          /\ displayErrors = <<>>
          /\ activeError = NoError
    /\ (effectRan /\ result.isNull) => route = "/"
    /\ (lastOp.name = "load" /\ session.kind # "ok") => (result.isNull /\ route = "/")

\* while result is null no step changes the displayed text or errors, and
\* only a load that finds a stored result sets result
NullResultStaysNull ==
    result.isNull =>
        /\ result'.isNull => (displayText' = displayText /\ displayErrors' = displayErrors)
        /\ ~result'.isNull => (session.kind = "ok" /\ result' = session.value)

\* C26: when session storage holds no result, or one that cannot be parsed,
\* loading the result page navigates to '/', result stays null, only the
\* loading screen is shown, and Apply Fix, Apply All Fixes and Reset change
\* nothing while result is null.
C26_NoStoredResult ==
    []NullResultShowsNothing /\ [][NullResultStaysNull]_vars

\* the mount effect ran on an item JSON.parse rejects
C26_Witness ==
    /\ session.kind = "invalid"
    /\ lastOp.name = "load"
    /\ effectRan
    /\ route = "/"
    /\ result.isNull

-----------------------------------------------------------------------------
\* every object the page holds (a displayed error, the tooltip's error) that
\* is an object of result.errors has the fields the stored result gave it
ResultObjectsIntact ==
    \A k \in 1..Len(result.errors) :
        /\ \A j \in 1..Len(displayErrors) :
              displayErrors[j].id = result.errors[k].id
                  => displayErrors[j] = result.errors[k]
        /\ activeError.id = result.errors[k].id => activeError = result.errors[k]

\* no step of the page that shows a loaded result changes the result
ResultUnchanged == (route = "/result" /\ ~result.isNull) => result' = result

\* the errors an Apply Fix leaves keep their type, original and suggestion
FixKeepsFields ==
    (lastOp'.name = "fix" /\ displayErrors' # displayErrors) =>
        LET prev == WithoutError(displayErrors, lastOp'.error)
        IN  /\ Len(displayErrors') = Len(prev)
            /\ \A j \in 1..Len(prev) :
                  /\ displayErrors'[j].type = prev[j].type
                  /\ displayErrors'[j].original = prev[j].original
                  /\ displayErrors'[j].suggestion = prev[j].suggestion

\* C27: Apply Fix, Apply All Fixes and Reset never change the loaded result
\* (its texts, its errors and the positions inside them, its sentences, its
\* confidence score), and apart from the shifted positions every remaining
\* display error keeps its other fields.
C27_ResultIsImmutable ==
    []ResultObjectsIntact /\ [][ResultUnchanged /\ FixKeepsFields]_vars

\* a fix put a shifted copy of a stored error in the list, and Reset showed
\* the stored errors again
C27_Witness ==
    /\ lastOp.name = "reset"
    /\ displayErrors = result.errors
    /\ \E j \in 1..Len(lastOp.errors) :
          /\ lastOp.errors[j].id \notin Ids(result.errors)
          /\ \A k \in 1..Len(result.errors) :
                lastOp.errors[j].start # result.errors[k].start

-----------------------------------------------------------------------------
\* the current index names a sentence of the result
IndexInRange ==
    (~result.isNull /\ Len(result.sentences) > 1) =>
        /\ 0 <= currentSentenceIndex
        /\ currentSentenceIndex < Len(result.sentences)

\* Previous does not act at index 0, Next does not act at the last sentence
DisabledAtTheEnds ==
    currentSentenceIndex' # currentSentenceIndex =>
        /\ lastOp'.name \in {"prev", "next", "dot"}
        /\ lastOp'.name = "prev" => currentSentenceIndex # 0
        /\ lastOp'.name = "next" =>
              currentSentenceIndex # Len(result.sentences) - 1

\* C28: starting from index 0 and for a result with more than one sentence,
\* after any sequence of Previous, Next and dot clicks
\* 0 <= currentIndex < sentences.length; Previous is disabled at index 0 and
\* Next at the last sentence.
C28_IndexInRange ==
    (currentSentenceIndex = 0) /\ []IndexInRange /\ [][DisabledAtTheEnds]_vars

\* Next has brought the navigator to the last of more than two sentences
C28_Witness ==
    /\ lastOp.name = "next"
    /\ Len(result.sentences) > 2
    /\ currentSentenceIndex = Len(result.sentences) - 1

-----------------------------------------------------------------------------
\* once Back / Check Another Text has been used nothing is stored, and the
\* result page shows no result
NothingStoredAfterNewCheck ==
    lastOp.checked =>
        /\ session.kind = "none"
        /\ route = "/result" => (result.isNull /\ Renders = "loading")

\* the step of handleNewCheck removes the item and navigates to '/'; a mount
\* effect that runs after it redirects to '/'
NewCheckThenRedirect ==
    /\ (~lastOp.checked /\ lastOp'.checked) => (session'.kind = "none" /\ route' = "/")
    /\ (lastOp.checked /\ ~effectRan /\ effectRan') => (route' = "/" /\ result'.isNull)

\* C29: handleNewCheck removes the stored result before it navigates to '/',
\* so a later load of the result page, with no new successful submission,
\* redirects to '/' and does not show the old result.
C29_NewCheckRemovesResult ==
    []NothingStoredAfterNewCheck /\ [][NewCheckThenRedirect]_vars

\* after a new check the result page was opened again and its mount effect
\* redirected
C29_Witness ==
    /\ lastOp.checked
    /\ lastOp.name = "load"
    /\ effectRan
    /\ route = "/"
    /\ result.isNull
    /\ session.kind = "none"

====
